---------------------------- MODULE Spec2Model ----------------------------
(***************************************************************************)
(* pg-helper (src/index.js): a query builder over a shared connection      *)
(* pool.  Every exported operation builds one SQL text plus a positional   *)
(* parameter list and hands both to query(), which takes a connection,    *)
(* runs the one statement and releases the connection in a finally block.  *)
(*                                                                         *)
(* Strings are sequences of one-character strings, so that SQL texts are   *)
(* compared character by character.  A JavaScript object is the sequence   *)
(* of its own enumerable entries in insertion order, [k |-> key, v |->     *)
(* value].  A JavaScript value is a record tagged with its type.           *)
(***************************************************************************)
EXTENDS Integers, Sequences, FiniteSets, TLC

VARIABLES pc, req, stmt, client, poolIdle, connects, executed, released,
          settled, outcome

vars == <<pc, req, stmt, client, poolIdle, connects, executed, released,
          settled, outcome>>

-----------------------------------------------------------------------------
(* Bounds of the model *)

\* longest array of column names handed to dropColumn
MaxColumns == 2
\* largest number of rows of a bulk insert
MaxRows == 2
\* numeric column values are 1..MaxVal
MaxVal == 2
\* longest database/table name handed to the name check
MaxNameLen == 2
\* concurrent callers in SpecConc
NProcs == 2
\* connections the pool can hand out at once in SpecConc
PoolSize == 1

-----------------------------------------------------------------------------
(* JavaScript values and objects *)

Num(n) == [type |-> "number", num |-> n, elems |-> <<>>, ref |-> ""]

Undefined == [type |-> "undefined", num |-> 0, elems |-> <<>>, ref |-> ""]

Arr(es) == [type |-> "array", num |-> 0, elems |-> es, ref |-> ""]

\* a function of the runtime, known by what it is
Function(ref) == [type |-> "function", num |-> 0, elems |-> <<>>, ref |-> ref]

\* an object of the runtime, known by what it is
RuntimeObject(ref) == [type |-> "object", num |-> 0, elems |-> <<>>, ref |-> ref]

ObjectKeys(obj) == [i \in 1..Len(obj) |-> obj[i].k]

ObjectValues(obj) == [i \in 1..Len(obj) |-> obj[i].v]

\* obj has an own property key
HasKey(obj, key) == \E i \in 1..Len(obj) : obj[i].k = key

\* the property names of Object.prototype, as texts
KeyConstructor == <<"c", "o", "n", "s", "t", "r", "u", "c", "t", "o", "r">>
KeyHasOwnProperty == <<"h", "a", "s", "O", "w", "n", "P", "r", "o", "p", "e",
    "r", "t", "y">>
KeyIsPrototypeOf == <<"i", "s", "P", "r", "o", "t", "o", "t", "y", "p", "e",
    "O", "f">>
KeyPropertyIsEnumerable == <<"p", "r", "o", "p", "e", "r", "t", "y", "I", "s",
    "E", "n", "u", "m", "e", "r", "a", "b", "l", "e">>
KeyToLocaleString == <<"t", "o", "L", "o", "c", "a", "l", "e", "S", "t", "r",
    "i", "n", "g">>
KeyToString == <<"t", "o", "S", "t", "r", "i", "n", "g">>
KeyValueOf == <<"v", "a", "l", "u", "e", "O", "f">>
KeyDefineGetter == <<"_", "_", "d", "e", "f", "i", "n", "e", "G", "e", "t",
    "t", "e", "r", "_", "_">>
KeyDefineSetter == <<"_", "_", "d", "e", "f", "i", "n", "e", "S", "e", "t",
    "t", "e", "r", "_", "_">>
KeyLookupGetter == <<"_", "_", "l", "o", "o", "k", "u", "p", "G", "e", "t",
    "t", "e", "r", "_", "_">>
KeyLookupSetter == <<"_", "_", "l", "o", "o", "k", "u", "p", "S", "e", "t",
    "t", "e", "r", "_", "_">>
KeyProto == <<"_", "_", "p", "r", "o", "t", "o", "_", "_">>

\* the names of the properties every object inherits from Object.prototype
PrototypeKeys ==
    {KeyConstructor, KeyHasOwnProperty, KeyIsPrototypeOf,
     KeyPropertyIsEnumerable, KeyToLocaleString, KeyToString, KeyValueOf,
     KeyDefineGetter, KeyDefineSetter, KeyLookupGetter,
     KeyLookupSetter, KeyProto}

\* the value of the property key of Object.prototype
Inherited(key) ==
    CASE key = KeyConstructor -> Function("Object")
      [] key = KeyHasOwnProperty -> Function("Object.prototype.hasOwnProperty")
      [] key = KeyIsPrototypeOf -> Function("Object.prototype.isPrototypeOf")
      [] key = KeyPropertyIsEnumerable ->
            Function("Object.prototype.propertyIsEnumerable")
      [] key = KeyToLocaleString -> Function("Object.prototype.toLocaleString")
      [] key = KeyToString -> Function("Object.prototype.toString")
      [] key = KeyValueOf -> Function("Object.prototype.valueOf")
      [] key = KeyDefineGetter -> Function("Object.prototype.__defineGetter__")
      [] key = KeyDefineSetter -> Function("Object.prototype.__defineSetter__")
      [] key = KeyLookupGetter -> Function("Object.prototype.__lookupGetter__")
      [] key = KeyLookupSetter -> Function("Object.prototype.__lookupSetter__")
      [] key = KeyProto -> RuntimeObject("Object.prototype")

\* obj[key]: the object's own property; for a key the object does not own,
\* the property of that name it inherits from Object.prototype; undefined
\* when there is neither
Get(obj, key) ==
    IF HasKey(obj, key)
    THEN obj[CHOOSE i \in 1..Len(obj) : obj[i].k = key].v
    ELSE IF key \in PrototypeKeys THEN Inherited(key)
    ELSE Undefined

RECURSIVE Concat(_)
\* the concatenation of a sequence of sequences
Concat(seqs) ==
    IF seqs = <<>> THEN <<>> ELSE Head(seqs) \o Concat(Tail(seqs))

RECURSIVE Spread(_)
Spread(values) ==
    IF values = <<>> THEN <<>>
    ELSE (IF Head(values).type = "array" THEN Head(values).elems
          ELSE <<Head(values)>>) \o Spread(Tail(values))

\* faulty variant of Flat: flat(Infinity), which also spreads the elements
\* that are arrays themselves
Flat_deep(arrays) == Spread(Concat(arrays))

\* Array.prototype.flat() with its default depth of 1: the elements of the
\* inner arrays in order; an element that is itself an array stays one element
Flat(arrays) == Concat(arrays)

RECURSIVE Join(_, _)
\* Array.prototype.join(sep) on an array of strings; "" for the empty array
Join(strs, sep) ==
    IF strs = <<>> THEN <<>>
    ELSE IF Len(strs) = 1 THEN strs[1]
    ELSE strs[1] \o sep \o Join(Tail(strs), sep)

DigitChars == <<"0", "1", "2", "3", "4", "5", "6", "7", "8", "9">>

RECURSIVE NumberToString(_)
\* `${n}` for a non-negative integer n: its decimal digits
NumberToString(n) ==
    IF n < 10 THEN <<DigitChars[n + 1]>>
    ELSE NumberToString(n \div 10) \o <<DigitChars[(n % 10) + 1]>>

-----------------------------------------------------------------------------
(* The fixed pieces of the SQL texts and of the error messages *)

\* the text "$"
Dollar == <<"$">>

\* the text ", "
CommaSpace == <<",", " ">>

\* the text " ("
SpaceOpen == <<" ", "(">>

\* the text " = "
SqlEquals == <<" ", "=", " ">>

\* the text " AND "
SqlAnd == <<" ", "A", "N", "D", " ">>

\* the text ";"
Semicolon == <<";">>

\* the text " "
Space == <<" ">>

\* the text ");"
CloseSemicolon == <<")", ";">>

\* the text "("
Open == <<"(">>

\* the text ")"
Close == <<")">>

\* the text "INSERT INTO "
SqlInsertInto == <<"I", "N", "S", "E", "R", "T", " ", "I", "N", "T", "O",
    " ">>

\* the text ") VALUES ("
SqlValuesOpen == <<")", " ", "V", "A", "L", "U", "E", "S", " ", "(">>

\* the text ") RETURNING *;"
SqlCloseReturning == <<")", " ", "R", "E", "T", "U", "R", "N", "I", "N", "G",
    " ", "*", ";">>

\* the text "SELECT * FROM "
SqlSelectFrom == <<"S", "E", "L", "E", "C", "T", " ", "*", " ", "F", "R", "O",
    "M", " ">>

\* the text " WHERE "
SqlWhere == <<" ", "W", "H", "E", "R", "E", " ">>

\* the text "CREATE TABLE IF NOT EXISTS "
SqlCreateTable == <<"C", "R", "E", "A", "T", "E", " ", "T", "A", "B", "L",
    "E", " ", "I", "F", " ", "N", "O", "T", " ", "E", "X", "I", "S", "T", "S",
    " ">>

\* the text "ADD COLUMN "
SqlAddColumn == <<"A", "D", "D", " ", "C", "O", "L", "U", "M", "N", " ">>

\* the text "DROP COLUMN "
SqlDropColumn == <<"D", "R", "O", "P", " ", "C", "O", "L", "U", "M", "N",
    " ">>

\* the text "ALTER COLUMN "
SqlAlterColumn == <<"A", "L", "T", "E", "R", " ", "C", "O", "L", "U", "M",
    "N", " ">>

\* the text " TYPE "
SqlType == <<" ", "T", "Y", "P", "E", " ">>

\* the text "ALTER TABLE "
SqlAlterTable == <<"A", "L", "T", "E", "R", " ", "T", "A", "B", "L", "E",
    " ">>

\* the text "CREATE DATABASE "
SqlCreateDatabase == <<"C", "R", "E", "A", "T", "E", " ", "D", "A", "T", "A",
    "B", "A", "S", "E", " ">>

\* the text "DROP TABLE IF EXISTS "
SqlDropTable == <<"D", "R", "O", "P", " ", "T", "A", "B", "L", "E", " ", "I",
    "F", " ", "E", "X", "I", "S", "T", "S", " ">>

\* the text "DROP DATABASE IF EXISTS "
SqlDropDatabase == <<"D", "R", "O", "P", " ", "D", "A", "T", "A", "B", "A",
    "S", "E", " ", "I", "F", " ", "E", "X", "I", "S", "T", "S", " ">>

\* the text "UPDATE "
SqlUpdate == <<"U", "P", "D", "A", "T", "E", " ">>

\* the text " SET "
SqlSet == <<" ", "S", "E", "T", " ">>

\* the text ") VALUES "
SqlValues == <<")", " ", "V", "A", "L", "U", "E", "S", " ">>

\* the text " RETURNING *;"
SqlReturning == <<" ", "R", "E", "T", "U", "R", "N", "I", "N", "G", " ", "*",
    ";">>

\* the text "table"
TypeTable == <<"t", "a", "b", "l", "e">>

\* the text "database"
TypeDatabase == <<"d", "a", "t", "a", "b", "a", "s", "e">>

\* the text "column"
TypeColumn == <<"c", "o", "l", "u", "m", "n">>

\* the text "No valid alterations provided."
MsgNoAlterations == <<"N", "o", " ", "v", "a", "l", "i", "d", " ", "a", "l",
    "t", "e", "r", "a", "t", "i", "o", "n", "s", " ", "p", "r", "o", "v", "i",
    "d", "e", "d", ".">>

\* the text "Invalid database name"
MsgInvalidDatabaseName == <<"I", "n", "v", "a", "l", "i", "d", " ", "d", "a",
    "t", "a", "b", "a", "s", "e", " ", "n", "a", "m", "e">>

\* the text "Invalid name provided. Only alphanumeric characters and
\* underscores are allowed."
MsgInvalidName == <<"I", "n", "v", "a", "l", "i", "d", " ", "n", "a", "m",
    "e", " ", "p", "r", "o", "v", "i", "d", "e", "d", ".", " ", "O", "n", "l",
    "y", " ", "a", "l", "p", "h", "a", "n", "u", "m", "e", "r", "i", "c", " ",
    "c", "h", "a", "r", "a", "c", "t", "e", "r", "s", " ", "a", "n", "d", " ",
    "u", "n", "d", "e", "r", "s", "c", "o", "r", "e", "s", " ", "a", "r", "e",
    " ", "a", "l", "l", "o", "w", "e", "d", ".">>

\* the text "Columns cannot be dropped using this function, use the alterTable
\* function to drop columns."
MsgColumnsNotDropped == <<"C", "o", "l", "u", "m", "n", "s", " ", "c", "a",
    "n", "n", "o", "t", " ", "b", "e", " ", "d", "r", "o", "p", "p", "e", "d",
    " ", "u", "s", "i", "n", "g", " ", "t", "h", "i", "s", " ", "f", "u", "n",
    "c", "t", "i", "o", "n", ",", " ", "u", "s", "e", " ", "t", "h", "e", " ",
    "a", "l", "t", "e", "r", "T", "a", "b", "l", "e", " ", "f", "u", "n", "c",
    "t", "i", "o", "n", " ", "t", "o", " ", "d", "r", "o", "p", " ", "c", "o",
    "l", "u", "m", "n", "s", ".">>

\* the text "Invalid type ("
MsgInvalidTypeOpen == <<"I", "n", "v", "a", "l", "i", "d", " ", "t", "y", "p",
    "e", " ", "(">>

\* the text ") provided. Use \"table\" or \"database\"."
MsgInvalidTypeClose == <<")", " ", "p", "r", "o", "v", "i", "d", "e", "d",
    ".", " ", "U", "s", "e", " ", "\"", "t", "a", "b", "l", "e", "\"", " ",
    "o", "r", " ", "\"", "d", "a", "t", "a", "b", "a", "s", "e", "\"", ".">>

\* the text "No data provided for bulk insert."
MsgNoBulkData == <<"N", "o", " ", "d", "a", "t", "a", " ", "p", "r", "o", "v",
    "i", "d", "e", "d", " ", "f", "o", "r", " ", "b", "u", "l", "k", " ", "i",
    "n", "s", "e", "r", "t", ".">>

\* the text "Failed to update the table."
MsgUpdateFailed == <<"F", "a", "i", "l", "e", "d", " ", "t", "o", " ", "u",
    "p", "d", "a", "t", "e", " ", "t", "h", "e", " ", "t", "a", "b", "l", "e",
    ".">>

\* the text "Failed to insert into '"
MsgInsertFailedOpen == <<"F", "a", "i", "l", "e", "d", " ", "t", "o", " ",
    "i", "n", "s", "e", "r", "t", " ", "i", "n", "t", "o", " ", "'">>

\* the text "'."
MsgQuoteDot == <<"'", ".">>

\* the text "Failed to add '"
MsgAddFailedOpen == <<"F", "a", "i", "l", "e", "d", " ", "t", "o", " ", "a",
    "d", "d", " ", "'">>

\* the text "' to '"
MsgQuoteTo == <<"'", " ", "t", "o", " ", "'">>

\* the text "Failed to execute database query."
MsgQueryFailed == <<"F", "a", "i", "l", "e", "d", " ", "t", "o", " ", "e",
    "x", "e", "c", "u", "t", "e", " ", "d", "a", "t", "a", "b", "a", "s", "e",
    " ", "q", "u", "e", "r", "y", ".">>

\* the text "database error"
MsgDatabaseError == <<"d", "a", "t", "a", "b", "a", "s", "e", " ", "e", "r",
    "r", "o", "r">>

\* the text "connection error"
MsgConnectionError == <<"c", "o", "n", "n", "e", "c", "t", "i", "o", "n", " ",
    "e", "r", "r", "o", "r">>

\* `$${n}`: the positional placeholder number n
Placeholder(n) == Dollar \o NumberToString(n)

-----------------------------------------------------------------------------
(* The character class and the test of /^[a-zA-Z0-9_]+$/ *)

LowerChars == {"a", "b", "c", "d", "e", "f", "g", "h", "i", "j", "k", "l",
    "m",
               "n", "o", "p", "q", "r", "s", "t", "u", "v", "w", "x", "y",
                   "z"}

UpperChars == {"A", "B", "C", "D", "E", "F", "G", "H", "I", "J", "K", "L",
    "M",
               "N", "O", "P", "Q", "R", "S", "T", "U", "V", "W", "X", "Y",
                   "Z"}

DigitSet == {"0", "1", "2", "3", "4", "5", "6", "7", "8", "9"}

WordChars == LowerChars \cup UpperChars \cup DigitSet \cup {"_"}

RECURSIVE MatchClassPlus(_, _)
\* the number of characters [a-zA-Z0-9_]+ consumes greedily from position i
MatchClassPlus(s, i) ==
    IF i <= Len(s) /\ s[i] \in WordChars THEN 1 + MatchClassPlus(s, i + 1) ELSE 0

\* faulty variant of NameRegexTest: /^[a-zA-Z0-9_]*$/, which lets the empty
\* name through
NameRegexTest_star(s) == MatchClassPlus(s, 1) = Len(s)

\* /^[a-zA-Z0-9_]+$/.test(s): anchored at the start, one or more class
\* characters, then the end of the input (no m flag: $ is the very end, a
\* trailing line break does not match)
NameRegexTest(s) ==
    LET n == MatchClassPlus(s, 1) IN n >= 1 /\ n = Len(s)

-----------------------------------------------------------------------------
(* Errors, statements and what a builder hands back *)

NoError == [origin |-> "none", message |-> <<>>]

\* new Error(message) thrown by a builder's own check
BuilderError(message) == [origin |-> "builder", message |-> message]

\* new Error(message) thrown by an exported function's catch block
FacadeError(message) == [origin |-> "facade", message |-> message]

\* the TypeError the runtime throws inside an exported function's catch block
TypeError(message) == [origin |-> "runtime", message |-> message]

\* the rejection of client.query(): the database refused the statement
DatabaseError == [origin |-> "database", message |-> MsgDatabaseError]

\* the rejection of pool.connect(): no connection could be obtained
PoolError == [origin |-> "pool", message |-> MsgConnectionError]

NoStatement == [text |-> <<>>, params |-> <<>>, returns |-> "nothing"]

\* a builder that reached query(text, params); returns says what the builder
\* returns of query's rows: "rows" (all of them), "first" (result[0]) or
\* "nothing" (no return statement)
Built(text, params, returns) ==
    [threw |-> FALSE, error |-> NoError, text |-> text, params |-> params,
     returns |-> returns]

\* a builder that threw before it reached query()
Threw(error) ==
    [threw |-> TRUE, error |-> error, text |-> <<>>, params |-> <<>>,
     returns |-> "nothing"]

-----------------------------------------------------------------------------
(* The builders, src/index.js lines 35-170 *)

\* faulty variant of insert: the values written into the text
insert_valuesInline(table, data) ==
    LET keys == ObjectKeys(data)
        values == ObjectValues(data)
        literals == Join([i \in 1..Len(keys) |-> NumberToString(values[i].num)],
                         CommaSpace)
        queryText == SqlInsertInto \o table \o SpaceOpen \o Join(keys, CommaSpace)
                     \o SqlValuesOpen \o literals \o SqlCloseReturning
    IN Built(queryText, <<>>, "first")

\* query(`INSERT INTO ${table} (${keys.join(', ')}) VALUES (${placeholders})
\* RETURNING *;`, values), returning result[0]
insert(table, data) ==
    LET keys == ObjectKeys(data)
        values == ObjectValues(data)
        placeholders == Join([i \in 1..Len(keys) |-> Placeholder(i)], CommaSpace)
        queryText == SqlInsertInto \o table \o SpaceOpen \o Join(keys, CommaSpace)
                     \o SqlValuesOpen \o placeholders \o SqlCloseReturning
    IN Built(queryText, values, "first")

\* faulty variant of select: the WHERE keyword is there even with no condition
select_alwaysWhere(table, where) ==
    LET keys == ObjectKeys(where)
        values == ObjectValues(where)
        conditions == Join([i \in 1..Len(keys) |->
                              keys[i] \o SqlEquals \o Placeholder(i)], SqlAnd)
        queryText == SqlSelectFrom \o table \o SqlWhere \o conditions
                     \o Semicolon
    IN Built(queryText, values, "rows")

\* query(`SELECT * FROM ${table}${conditions ? ' WHERE ' + conditions : ''};`,
\* values), conditions the `${key} = $${i + 1}` joined with ' AND '
select(table, where) ==
    LET keys == ObjectKeys(where)
        values == ObjectValues(where)
        conditions == Join([i \in 1..Len(keys) |->
                              keys[i] \o SqlEquals \o Placeholder(i)], SqlAnd)
        queryText == SqlSelectFrom \o table
                     \o (IF conditions # <<>> THEN SqlWhere \o conditions
                         ELSE <<>>)
                     \o Semicolon
    IN Built(queryText, values, "rows")

\* query(`CREATE TABLE IF NOT EXISTS ${table} (${columnDefinitions});`),
\* columnDefinitions the `${key} ${value}` joined with ', '
create(table, columns) ==
    LET columnDefinitions ==
            Join([i \in 1..Len(columns) |->
                    columns[i].k \o Space \o columns[i].v], CommaSpace)
        queryText == SqlCreateTable \o table \o SpaceOpen
                     \o columnDefinitions \o CloseSemicolon
    IN Built(queryText, <<>>, "rows")

\* faulty variant of alterTable: no check of an empty list of alterations
alterTable_noEmptyCheck(table, changes) ==
    LET added == IF changes.hasAdd
                 THEN [i \in 1..Len(changes.add) |->
                         SqlAddColumn \o changes.add[i].k \o Space
                         \o changes.add[i].v]
                 ELSE <<>>
        dropped == IF changes.hasDrop
                   THEN [i \in 1..Len(changes.drop) |->
                           SqlDropColumn \o changes.drop[i]]
                   ELSE <<>>
        modified == IF changes.hasModify
                    THEN [i \in 1..Len(changes.modify) |->
                            SqlAlterColumn \o changes.modify[i].k
                            \o SqlType \o changes.modify[i].v]
                    ELSE <<>>
        alterations == added \o dropped \o modified
        queryText == SqlAlterTable \o table \o Space
                     \o Join(alterations, CommaSpace) \o Semicolon
    IN Built(queryText, <<>>, "rows")

\* query(`ALTER TABLE ${table} ${alterations.join(', ')};`), alterations the
\* `ADD COLUMN ${column} ${type}`, `DROP COLUMN ${column}` and
\* `ALTER COLUMN ${column} TYPE ${newType}` in this order; an Error when
\* there is none.
\* changes is {add: ...}, {drop: ...} or {modify: ...}: has* says whether the
\* property is there (an object or an array, both truthy even when empty)
alterTable(table, changes) ==
    LET added == IF changes.hasAdd
                 THEN [i \in 1..Len(changes.add) |->
                         SqlAddColumn \o changes.add[i].k \o Space
                         \o changes.add[i].v]
                 ELSE <<>>
        dropped == IF changes.hasDrop
                   THEN [i \in 1..Len(changes.drop) |->
                           SqlDropColumn \o changes.drop[i]]
                   ELSE <<>>
        modified == IF changes.hasModify
                    THEN [i \in 1..Len(changes.modify) |->
                            SqlAlterColumn \o changes.modify[i].k
                            \o SqlType \o changes.modify[i].v]
                    ELSE <<>>
        alterations == added \o dropped \o modified
        queryText == SqlAlterTable \o table \o Space
                     \o Join(alterations, CommaSpace) \o Semicolon
    IN IF Len(alterations) = 0
       THEN Threw(BuilderError(MsgNoAlterations))
       ELSE Built(queryText, <<>>, "rows")

\* query(`CREATE DATABASE ${database}`) after the name check
createDB(database) ==
    IF ~NameRegexTest(database)
    THEN Threw(BuilderError(MsgInvalidDatabaseName))
    ELSE Built(SqlCreateDatabase \o database, <<>>, "rows")

\* query(`DROP TABLE IF EXISTS ${name}`) or query(`DROP DATABASE IF EXISTS
\* ${name}`) after the name check; an Error for any other type
drop(type, name) ==
    IF ~NameRegexTest(name)
    THEN Threw(BuilderError(MsgInvalidName))
    ELSE IF type = TypeTable
    THEN Built(SqlDropTable \o name, <<>>, "rows")
    ELSE IF type = TypeDatabase
    THEN Built(SqlDropDatabase \o name, <<>>, "rows")
    ELSE IF type = TypeColumn
    THEN Threw(BuilderError(MsgColumnsNotDropped))
    ELSE Threw(BuilderError(MsgInvalidTypeOpen \o type
                            \o MsgInvalidTypeClose))

\* faulty variant of update: the WHERE placeholders start again at $1
update_whereRestarts(table, data, where) ==
    LET dataKeys == ObjectKeys(data)
        whereKeys == ObjectKeys(where)
        setString == Join([i \in 1..Len(dataKeys) |->
                             dataKeys[i] \o SqlEquals \o Placeholder(i)], CommaSpace)
        whereString == Join([i \in 1..Len(whereKeys) |->
                               whereKeys[i] \o SqlEquals \o Placeholder(i)],
                            SqlAnd)
        values == ObjectValues(data) \o ObjectValues(where)
        queryText == SqlUpdate \o table \o SqlSet \o setString
                     \o SqlWhere \o whereString \o Semicolon
    IN Built(queryText, values, "nothing")

\* query(`UPDATE ${table} SET ${setString} WHERE ${whereString};`, values),
\* the SET items `${key} = $${i + 1}` joined with ', ', the WHERE items
\* `${key} = $${i + 1 + Object.keys(data).length}` joined with ' AND '
update(table, data, where) ==
    LET dataKeys == ObjectKeys(data)
        whereKeys == ObjectKeys(where)
        setString == Join([i \in 1..Len(dataKeys) |->
                             dataKeys[i] \o SqlEquals \o Placeholder(i)], CommaSpace)
        whereString == Join([i \in 1..Len(whereKeys) |->
                               whereKeys[i] \o SqlEquals
                               \o Placeholder(i + Len(dataKeys))], SqlAnd)
        values == ObjectValues(data) \o ObjectValues(where)
        queryText == SqlUpdate \o table \o SqlSet \o setString
                     \o SqlWhere \o whereString \o Semicolon
    IN Built(queryText, values, "nothing")

\* faulty variant of insertBulk: the placeholders numbered column by column
insertBulk_columnMajor(table, dataArray) ==
    IF Len(dataArray) = 0
    THEN Threw(BuilderError(MsgNoBulkData))
    ELSE
    LET keys == ObjectKeys(dataArray[1])
        values == [r \in 1..Len(dataArray) |->
                     [j \in 1..Len(keys) |-> Get(dataArray[r], keys[j])]]
        placeholders ==
            Join([r \in 1..Len(values) |->
                    Open \o Join([j \in 1..Len(values[r]) |->
                                     Placeholder((j - 1) * Len(values) + (r - 1) + 1)],
                                  CommaSpace) \o Close],
                 CommaSpace)
        queryText == SqlInsertInto \o table \o SpaceOpen \o Join(keys, CommaSpace)
                     \o SqlValues \o placeholders \o SqlReturning
    IN Built(queryText, Flat(values), "rows")

\* faulty variant of insertBulk: each row's values taken by position,
\* Object.values(obj)[j], instead of by the first row's key
insertBulk_positional(table, dataArray) ==
    IF Len(dataArray) = 0
    THEN Threw(BuilderError(MsgNoBulkData))
    ELSE
    LET keys == ObjectKeys(dataArray[1])
        values == [r \in 1..Len(dataArray) |->
                     [j \in 1..Len(keys) |->
                        IF j <= Len(dataArray[r]) THEN ObjectValues(dataArray[r])[j]
                        ELSE Undefined]]
        placeholders ==
            Join([r \in 1..Len(values) |->
                    Open \o Join([j \in 1..Len(values[r]) |->
                                     Placeholder((r - 1) * Len(keys) + (j - 1) + 1)],
                                  CommaSpace) \o Close],
                 CommaSpace)
        queryText == SqlInsertInto \o table \o SpaceOpen \o Join(keys, CommaSpace)
                     \o SqlValues \o placeholders \o SqlReturning
    IN Built(queryText, Flat(values), "rows")

\* query(`INSERT INTO ${table} (${keys.join(', ')}) VALUES ${placeholders}
\* RETURNING *;`, values.flat()), keys those of the first row, values the
\* rows' keys.map(k => obj[k]), placeholders one (..) tuple a row
insertBulk(table, dataArray) ==
    IF Len(dataArray) = 0
    THEN Threw(BuilderError(MsgNoBulkData))
    ELSE
    LET keys == ObjectKeys(dataArray[1])
        values == [r \in 1..Len(dataArray) |->
                     [j \in 1..Len(keys) |-> Get(dataArray[r], keys[j])]]
        \* i is the 0-based row index of the source, r - 1 here
        placeholders ==
            Join([r \in 1..Len(values) |->
                    Open \o Join([j \in 1..Len(values[r]) |->
                                     Placeholder((r - 1) * Len(keys) + (j - 1) + 1)],
                                  CommaSpace) \o Close],
                 CommaSpace)
        queryText == SqlInsertInto \o table \o SpaceOpen \o Join(keys, CommaSpace)
                     \o SqlValues \o placeholders \o SqlReturning
    IN Built(queryText, Flat(values), "rows")

-----------------------------------------------------------------------------
(* Calls of the exported functions *)

NoObject == <<>>

\* insertIntoTable's data argument: an array of row objects or one object
ArrayData(list) == [isArray |-> TRUE, obj |-> NoObject, list |-> list]

ObjectData(obj) == [isArray |-> FALSE, obj |-> obj, list |-> <<>>]

\* selectFromTable's where argument: given, or left out (undefined)
WhereGiven(obj) == [given |-> TRUE, obj |-> obj]

WhereOmitted == [given |-> FALSE, obj |-> NoObject]

\* dropColumn's column argument: an array of names or one name
ColumnArray(list) == [isArray |-> TRUE, one |-> <<>>, list |-> list]

ColumnName(name) == [isArray |-> FALSE, one |-> name, list |-> <<>>]

\* one call of an exported function with its arguments; the fields an
\* operation does not take keep these defaults
NoRequest ==
    [op |-> "none", table |-> <<>>, name |-> <<>>, data |-> ObjectData(NoObject),
     set |-> NoObject, where |-> WhereOmitted, columns |-> NoObject,
     column |-> ColumnArray(<<>>)]

NoReturn == [kind |-> "none", rows |-> <<>>]

Pending == [status |-> "pending", value |-> NoReturn, error |-> NoError]

\* the promise of an exported function fulfilled with value
Fulfilled(value) == [status |-> "returned", value |-> value, error |-> NoError]

\* the promise of an exported function rejected with error
Rejected(error) == [status |-> "threw", value |-> NoReturn, error |-> error]

\* what the builder returns of the rows query() gave it
BuilderReturn(returns, rows) ==
    IF returns = "rows" THEN [kind |-> "rows", rows |-> rows]
    ELSE IF returns = "first" /\ Len(rows) >= 1
    THEN [kind |-> "row", rows |-> <<rows[1]>>]
    ELSE [kind |-> "undefined", rows |-> <<>>]

\* what Object.prototype.toString gives for a plain object
ObjectObject == <<"[", "o", "b", "j", "e", "c", "t", " ", "O", "b", "j", "e",
    "c", "t", "]">>

\* the message of the TypeError of a conversion to a primitive that fails
MsgCannotConvert == <<"C", "a", "n", "n", "o", "t", " ", "c", "o", "n", "v",
    "e", "r", "t", " ", "o", "b", "j", "e", "c", "t", " ", "t", "o", " ", "p",
    "r", "i", "m", "i", "t", "i", "v", "e", " ", "v", "a", "l", "u", "e">>

\* ${obj} in a template literal, String(obj): obj.toString() where toString
\* is callable, as the inherited one is.  An own property toString of a
\* column object holds a type text, which is not callable, and valueOf
\* (inherited: gives the object back; own: a text again) yields no primitive
\* either: the conversion throws a TypeError.
TemplateString(obj) ==
    IF HasKey(obj, KeyToString)
    THEN [threw |-> TRUE, text |-> <<>>, error |-> TypeError(MsgCannotConvert)]
    ELSE [threw |-> FALSE, text |-> ObjectObject, error |-> NoError]

\* what reaches the caller when the builder of request r failed with error:
\* the Error of the function's catch block, or error itself where the
\* function has no try/catch (dropColumn).  The catch block of addColumns
\* puts the column object into the text of its console.error line first: a
\* conversion that throws ends the catch block there, with the TypeError.
Caught(r, error) ==
    CASE r.op = "updateTable" -> FacadeError(MsgUpdateFailed)
      [] r.op = "insertIntoTable" ->
            FacadeError(MsgInsertFailedOpen \o r.table \o MsgQuoteDot)
      [] r.op = "addColumns" ->
            IF TemplateString(r.columns).threw
            THEN TemplateString(r.columns).error
            ELSE FacadeError(MsgAddFailedOpen
                             \o TemplateString(r.columns).text
                             \o MsgQuoteTo \o r.table \o MsgQuoteDot)
      [] r.op = "dropColumn" -> error
      [] OTHER -> FacadeError(MsgQueryFailed)

\* the synchronous start of a call by caller p, up to the exported function's
\* await: the builder runs up to its check failing, which leaves its promise
\* rejected with the builder's error, or up to query()'s pool.connect().  The
\* exported function's promise is pending either way: its continuation, the
\* catch block included, runs in a later turn (callSettled).
Call(p, r, built) ==
    /\ pc[p] = "idle"
    /\ req' = [req EXCEPT ![p] = r]
    /\ IF built.threw
       THEN /\ pc' = [pc EXCEPT ![p] = "settling"]
            /\ settled' = [settled EXCEPT ![p] =
                             [state |-> "rejected", rows |-> <<>>,
                              error |-> built.error]]
            /\ UNCHANGED stmt
       ELSE /\ pc' = [pc EXCEPT ![p] = "connecting"]
            /\ stmt' = [stmt EXCEPT ![p] =
                          [text |-> built.text, params |-> built.params,
                           returns |-> built.returns]]
            /\ UNCHANGED settled
    /\ UNCHANGED <<client, poolIdle, connects, executed, released, outcome>>

updateTable(p, table, data, where) ==
    Call(p, [NoRequest EXCEPT !.op = "updateTable", !.table = table,
                              !.set = data, !.where = WhereGiven(where)],
         update(table, data, where))

createTable(p, table, columns) ==
    Call(p, [NoRequest EXCEPT !.op = "createTable", !.table = table,
                              !.columns = columns],
         create(table, columns))

insertIntoTable(p, table, data) ==
    Call(p, [NoRequest EXCEPT !.op = "insertIntoTable", !.table = table,
                              !.data = data],
         IF data.isArray THEN insertBulk(table, data.list)
         ELSE insert(table, data.obj))

\* where = {} is the default of a where left out
selectFromTable(p, table, where) ==
    Call(p, [NoRequest EXCEPT !.op = "selectFromTable", !.table = table,
                              !.where = where],
         select(table, IF where.given THEN where.obj ELSE NoObject))

dropTable(p, name) ==
    Call(p, [NoRequest EXCEPT !.op = "dropTable", !.name = name],
         drop(TypeTable, name))

dropDatabase(p, name) ==
    Call(p, [NoRequest EXCEPT !.op = "dropDatabase", !.name = name],
         drop(TypeDatabase, name))

dropColumn(p, table, column) ==
    LET columns == IF column.isArray THEN column.list ELSE <<column.one>>
    IN Call(p, [NoRequest EXCEPT !.op = "dropColumn", !.table = table,
                                 !.column = column],
            alterTable(table, [hasAdd |-> FALSE, add |-> NoObject,
                               hasDrop |-> TRUE, drop |-> columns,
                               hasModify |-> FALSE, modify |-> NoObject]))

createDatabase(p, name) ==
    Call(p, [NoRequest EXCEPT !.op = "createDatabase", !.name = name],
         createDB(name))

modifyColumns(p, table, columns) ==
    Call(p, [NoRequest EXCEPT !.op = "modifyColumns", !.table = table,
                              !.columns = columns],
         alterTable(table, [hasAdd |-> FALSE, add |-> NoObject,
                            hasDrop |-> FALSE, drop |-> <<>>,
                            hasModify |-> TRUE, modify |-> columns]))

addColumns(p, table, columns) ==
    Call(p, [NoRequest EXCEPT !.op = "addColumns", !.table = table,
                              !.columns = columns],
         alterTable(table, [hasAdd |-> TRUE, add |-> columns,
                            hasDrop |-> FALSE, drop |-> <<>>,
                            hasModify |-> FALSE, modify |-> NoObject]))

-----------------------------------------------------------------------------
(* query(text, params), src/index.js lines 19-27 *)

NotSettled == [state |-> "pending", rows |-> <<>>, error |-> NoError]

\* client.query() resolved with res, res.rows = rows
Resolved(rows) == [state |-> "fulfilled", rows |-> rows, error |-> NoError]

\* client.query() or pool.connect() rejected with error
Failed(error) == [state |-> "rejected", rows |-> <<>>, error |-> error]

\* await pool.connect() resolves with a client once the pool has an idle
\* connection; query() goes on to client.query(text, params)
queryConnected(p) ==
    /\ pc[p] = "connecting"
    /\ poolIdle > 0
    /\ poolIdle' = poolIdle - 1
    /\ client' = [client EXCEPT ![p] = TRUE]
    /\ connects' = [connects EXCEPT ![p] = @ + 1]
    /\ executed' = [executed EXCEPT ![p] = @ + 1]
    /\ pc' = [pc EXCEPT ![p] = "executing"]
    /\ UNCHANGED <<req, stmt, released, settled, outcome>>

\* await pool.connect() rejects: query() rejects with the pool's error, there
\* is no client and the try block is never entered
queryConnectFailed(p) ==
    /\ pc[p] = "connecting"
    /\ settled' = [settled EXCEPT ![p] = Failed(PoolError)]
    /\ pc' = [pc EXCEPT ![p] = "settling"]
    /\ UNCHANGED <<req, stmt, client, poolIdle, connects, executed, released,
                   outcome>>

\* client.release() of the finally block
release(p) ==
    /\ client' = [client EXCEPT ![p] = FALSE]
    /\ poolIdle' = poolIdle + 1
    /\ released' = [released EXCEPT ![p] = @ + 1]

\* faulty variant of queryResponded: client.release() after the await inside
\* the try block instead of in a finally block, so not when the statement fails
queryResponded_releaseOnSuccess(p, response) ==
    /\ pc[p] = "executing"
    /\ settled' = [settled EXCEPT ![p] = response]
    /\ IF response.state = "fulfilled" THEN release(p)
       ELSE UNCHANGED <<client, poolIdle, released>>
    /\ pc' = [pc EXCEPT ![p] = "settling"]
    /\ UNCHANGED <<req, stmt, connects, executed, outcome>>

\* await client.query() settles with response: query() returns res.rows or
\* lets the error through, and either way runs the finally block first
queryResponded(p, response) ==
    /\ pc[p] = "executing"
    /\ settled' = [settled EXCEPT ![p] = response]
    /\ release(p)
    /\ pc' = [pc EXCEPT ![p] = "settling"]
    /\ UNCHANGED <<req, stmt, connects, executed, outcome>>

\* the continuations after the awaits, once the builder's promise has
\* settled (settled[p]: rejected by the builder's own check, or by query(),
\* or fulfilled with query()'s rows): the builder's return value goes
\* through, an error goes through the exported function's catch block
callSettled(p) ==
    /\ pc[p] = "settling"
    /\ outcome' = [outcome EXCEPT ![p] =
                     IF settled[p].state = "rejected"
                     THEN Rejected(Caught(req[p], settled[p].error))
                     ELSE Fulfilled(BuilderReturn(stmt[p].returns, settled[p].rows))]
    /\ pc' = [pc EXCEPT ![p] = "done"]
    /\ UNCHANGED <<req, stmt, client, poolIdle, connects, executed, released,
                   settled>>

-----------------------------------------------------------------------------
(* The inputs of the calls *)

Tables == {<<"t">>}

\* column names: a plain one and one that is also a property of
\* Object.prototype
Keys == {<<"a">>, KeyToString}

\* column values: numbers and one array value (a PostgreSQL array parameter)
Values == {Num(n) : n \in 1..MaxVal} \cup {Arr(<<Num(1), Num(2)>>)}

TypeDeclarations == {<<"I", "N", "T">>, <<"T", "E", "X", "T">>}

\* the objects with distinct keys of Keys and values of V
ObjectsOver(V) ==
    UNION {{obj \in [1..n -> [k : Keys, v : V]] :
              \A i, j \in 1..n : obj[i].k = obj[j].k => i = j} :
           n \in 0..Cardinality(Keys)}

Objects == ObjectsOver(Values)

ColumnObjects == ObjectsOver(TypeDeclarations)

RowLists == UNION {[1..m -> Objects] : m \in 0..MaxRows}

InsertData == {ObjectData(obj) : obj \in Objects}
              \cup {ArrayData(list) : list \in RowLists}

Wheres == {WhereGiven(obj) : obj \in Objects} \cup {WhereOmitted}

ColumnArgs == {ColumnArray(list) :
                  list \in UNION {[1..n -> Keys] : n \in 0..MaxColumns}}
              \cup {ColumnName(key) : key \in Keys}

\* characters of the names handed to the name check: inside the class and
\* outside it
NameChars == {"a", "Z", "7", "_", "-", " ", "\n"}

Names == UNION {[1..n -> NameChars] : n \in 0..MaxNameLen}

\* rows are opaque to the code: the database returns none or two
RowSets == {<<>>, <<"row1", "row2">>}

Responses == {Resolved(rows) : rows \in RowSets} \cup {Failed(DatabaseError)}

\* the small inputs of the concurrent specification
ConcObjects == {<<>>, <<[k |-> <<"a">>, v |-> Num(1)]>>}

ConcColumnObjects == {<<>>, <<[k |-> <<"a">>, v |-> <<"I", "N", "T">>]>>}

ConcInsertData == {ObjectData(<<[k |-> <<"a">>, v |-> Num(1)]>>), ArrayData(<<>>)}

ConcNames == {<<>>, <<"d", "b">>}

ConcResponses == {Resolved(<<"row1", "row2">>), Failed(DatabaseError)}

-----------------------------------------------------------------------------
(* The specifications *)

InitOf(callers) ==
    /\ pc = [p \in callers |-> "idle"]
    /\ req = [p \in callers |-> NoRequest]
    /\ stmt = [p \in callers |-> NoStatement]
    /\ client = [p \in callers |-> FALSE]
    /\ poolIdle = PoolSize
    /\ connects = [p \in callers |-> 0]
    /\ executed = [p \in callers |-> 0]
    /\ released = [p \in callers |-> 0]
    /\ settled = [p \in callers |-> NotSettled]
    /\ outcome = [p \in callers |-> Pending]

\* one caller, every input.  A call starts from an idle caller: the guard of
\* Call, stated here before the inputs are drawn.
Init == InitOf({1})

Next ==
    \/ \E p \in DOMAIN pc :
          /\ pc[p] = "idle"
          /\ \E t \in Tables, d \in Objects, w \in Objects :
                updateTable(p, t, d, w)
    \/ \E p \in DOMAIN pc :
          /\ pc[p] = "idle"
          /\ \E t \in Tables, c \in ColumnObjects :
                createTable(p, t, c)
    \/ \E p \in DOMAIN pc :
          /\ pc[p] = "idle"
          /\ \E t \in Tables, d \in InsertData :
                insertIntoTable(p, t, d)
    \/ \E p \in DOMAIN pc :
          /\ pc[p] = "idle"
          /\ \E t \in Tables, w \in Wheres :
                selectFromTable(p, t, w)
    \/ \E p \in DOMAIN pc :
          /\ pc[p] = "idle"
          /\ \E n \in Names :
                dropTable(p, n)
    \/ \E p \in DOMAIN pc :
          /\ pc[p] = "idle"
          /\ \E n \in Names :
                dropDatabase(p, n)
    \/ \E p \in DOMAIN pc :
          /\ pc[p] = "idle"
          /\ \E t \in Tables, c \in ColumnArgs :
                dropColumn(p, t, c)
    \/ \E p \in DOMAIN pc :
          /\ pc[p] = "idle"
          /\ \E n \in Names :
                createDatabase(p, n)
    \/ \E p \in DOMAIN pc :
          /\ pc[p] = "idle"
          /\ \E t \in Tables, c \in ColumnObjects :
                modifyColumns(p, t, c)
    \/ \E p \in DOMAIN pc :
          /\ pc[p] = "idle"
          /\ \E t \in Tables, c \in ColumnObjects :
                addColumns(p, t, c)
    \/ \E p \in DOMAIN pc : queryConnected(p)
    \/ \E p \in DOMAIN pc : queryConnectFailed(p)
    \/ \E p \in DOMAIN pc, r \in Responses : queryResponded(p, r)
    \/ \E p \in DOMAIN pc : callSettled(p)

Spec == Init /\ [][Next]_vars

\* NProcs concurrent callers over a pool of PoolSize connections
InitConc == InitOf(1..NProcs)

NextConc ==
    \/ \E p \in DOMAIN pc :
          /\ pc[p] = "idle"
          /\ \E t \in Tables, d \in ConcObjects, w \in ConcObjects :
                updateTable(p, t, d, w)
    \/ \E p \in DOMAIN pc :
          /\ pc[p] = "idle"
          /\ \E t \in Tables, c \in ConcColumnObjects :
                createTable(p, t, c)
    \/ \E p \in DOMAIN pc :
          /\ pc[p] = "idle"
          /\ \E t \in Tables, d \in ConcInsertData :
                insertIntoTable(p, t, d)
    \/ \E p \in DOMAIN pc :
          /\ pc[p] = "idle"
          /\ \E t \in Tables, w \in {WhereOmitted} :
                selectFromTable(p, t, w)
    \/ \E p \in DOMAIN pc :
          /\ pc[p] = "idle"
          /\ \E n \in ConcNames :
                dropTable(p, n)
    \/ \E p \in DOMAIN pc :
          /\ pc[p] = "idle"
          /\ \E n \in ConcNames :
                dropDatabase(p, n)
    \/ \E p \in DOMAIN pc :
          /\ pc[p] = "idle"
          /\ \E t \in Tables, c \in {ColumnArray(<<<<"a">>>>)} :
                dropColumn(p, t, c)
    \/ \E p \in DOMAIN pc :
          /\ pc[p] = "idle"
          /\ \E n \in ConcNames :
                createDatabase(p, n)
    \/ \E p \in DOMAIN pc :
          /\ pc[p] = "idle"
          /\ \E t \in Tables, c \in ConcColumnObjects :
                modifyColumns(p, t, c)
    \/ \E p \in DOMAIN pc :
          /\ pc[p] = "idle"
          /\ \E t \in Tables, c \in ConcColumnObjects :
                addColumns(p, t, c)
    \/ \E p \in DOMAIN pc : queryConnected(p)
    \/ \E p \in DOMAIN pc : queryConnectFailed(p)
    \/ \E p \in DOMAIN pc, r \in ConcResponses : queryResponded(p, r)
    \/ \E p \in DOMAIN pc : callSettled(p)

SpecConc == InitConc /\ [][NextConc]_vars

-----------------------------------------------------------------------------
(* Reading a SQL text back: substrings, list items, placeholders *)

\* sub occurs in s at position i
OccursAt(sub, s, i) ==
    /\ i >= 1
    /\ i + Len(sub) - 1 <= Len(s)
    /\ \A j \in 1..Len(sub) : s[i + j - 1] = sub[j]

Contains(sub, s) == \E i \in 1..(Len(s) + 1) : OccursAt(sub, s, i)

StartsWith(s, prefix) == OccursAt(prefix, s, 1)

EndsWith(s, suffix) == OccursAt(suffix, s, Len(s) - Len(suffix) + 1)

\* the first position of sub in s, 0 when there is none
IndexOf(sub, s) ==
    IF Contains(sub, s)
    THEN CHOOSE i \in 1..(Len(s) + 1) :
            OccursAt(sub, s, i) /\ \A j \in 1..(i - 1) : ~OccursAt(sub, s, j)
    ELSE 0

RECURSIVE Split(_, _)
\* the pieces of s between the occurrences of a non-empty sep, left to right
Split(s, sep) ==
    LET i == IndexOf(sep, s)
    IN IF i = 0 THEN <<s>>
       ELSE <<SubSeq(s, 1, i - 1)>> \o Split(SubSeq(s, i + Len(sep), Len(s)), sep)

\* the items of a list joined with sep; the empty text is the empty list
Items(s, sep) == IF s = <<>> THEN <<>> ELSE Split(s, sep)

\* the part of s after its first `open` and before the next `close`
Between(s, open, close) ==
    LET rest == SubSeq(s, IndexOf(open, s) + Len(open), Len(s))
    IN SubSeq(rest, 1, IndexOf(close, rest) - 1)

RECURSIVE DigitRun(_, _)
\* the number of digits of s from position i on
DigitRun(s, i) ==
    IF i <= Len(s) /\ s[i] \in DigitSet THEN 1 + DigitRun(s, i + 1) ELSE 0

DigitValue(c) == CHOOSE d \in 0..9 : DigitChars[d + 1] = c

RECURSIVE ParseDigits(_)
ParseDigits(ds) ==
    IF ds = <<>> THEN 0
    ELSE 10 * ParseDigits(SubSeq(ds, 1, Len(ds) - 1)) + DigitValue(ds[Len(ds)])

RECURSIVE PlaceholdersFrom(_, _)
\* the numbers of the $n placeholders of s from position i on, left to right
PlaceholdersFrom(s, i) ==
    IF i > Len(s) THEN <<>>
    ELSE IF s[i] = "$" /\ DigitRun(s, i + 1) >= 1
    THEN <<ParseDigits(SubSeq(s, i + 1, i + DigitRun(s, i + 1)))>>
         \o PlaceholdersFrom(s, i + 1 + DigitRun(s, i + 1))
    ELSE PlaceholdersFrom(s, i + 1)

PlaceholdersOf(s) == PlaceholdersFrom(s, 1)

Iota(n) == [i \in 1..n |-> i]

-----------------------------------------------------------------------------
(* Vocabulary of the properties *)

Callers == DOMAIN pc

\* caller p's builder reached query(text, params) with a statement
Handed(p) == pc[p] # "idle" /\ stmt[p].text # <<>>

\* caller p's builder threw before query(): no statement, no connection, and
\* the call ends with an error and in no other way
FailsUpFront(p) ==
    /\ pc[p] \in {"settling", "done"}
    /\ settled[p].state = "rejected"
    /\ settled[p].error.origin = "builder"
    /\ outcome[p].status = (IF pc[p] = "done" THEN "threw" ELSE "pending")
    /\ ~Handed(p)
    /\ connects[p] = 0
    /\ executed[p] = 0

\* caller p's call is over, failed with an error without any statement, any
\* connection
FailedUpFront(p) == FailsUpFront(p) /\ pc[p] = "done"

IsBulkInsert(r) == r.op = "insertIntoTable" /\ r.data.isArray

IsSingleInsert(r) == r.op = "insertIntoTable" /\ ~r.data.isArray

KeySet(obj) == {obj[i].k : i \in 1..Len(obj)}

-----------------------------------------------------------------------------
(* Properties *)

\* C1: under any interleaving of concurrent calls, a call that obtained a
\* connection runs at most one statement on it while it holds it and has
\* released it exactly once by the time query() has settled (so before the
\* call returns or throws), whether the statement succeeded or failed; the
\* pool's connections are conserved, and once no call is in flight every
\* connection is back in the pool.
C1_ConnectionReleasedOnce ==
    /\ \A p \in Callers :
          /\ executed[p] <= 1
          /\ released[p] <= connects[p]
          /\ client[p] <=> (connects[p] = 1 /\ released[p] = 0)
          /\ client[p] => pc[p] = "executing" /\ executed[p] = 1
          /\ (pc[p] \in {"settling", "done"} /\ connects[p] >= 1)
                => (released[p] = 1 /\ ~client[p])
    /\ poolIdle + Cardinality({p \in Callers : client[p]}) = PoolSize
    /\ (\A p \in Callers : pc[p] \in {"idle", "done"}) => poolIdle = PoolSize

\* two finished calls that each held a connection, one whose statement the
\* database refused and one it ran, with the pool whole again
C1_Witness ==
    \E p, q \in Callers :
        /\ p # q
        /\ pc[p] = "done" /\ pc[q] = "done"
        /\ connects[p] = 1 /\ connects[q] = 1
        /\ settled[p] = Failed(DatabaseError)
        /\ settled[q].state = "fulfilled"
        /\ outcome[p].status = "threw" /\ outcome[q].status = "returned"
        /\ poolIdle = PoolSize

\* obj with every value replaced by undefined
EraseValues(obj) == [i \in 1..Len(obj) |-> [k |-> obj[i].k, v |-> Undefined]]

\* the statement the builders give for the insert, select or update request r
StatementFor(r) ==
    CASE IsBulkInsert(r) -> insertBulk(r.table, r.data.list)
      [] IsSingleInsert(r) -> insert(r.table, r.data.obj)
      [] r.op = "selectFromTable" ->
            select(r.table, IF r.where.given THEN r.where.obj ELSE NoObject)
      [] r.op = "updateTable" -> update(r.table, r.set, r.where.obj)

\* r with the values of all its mappings erased: table and keys only
Erased(r) ==
    [r EXCEPT !.data = [isArray |-> r.data.isArray,
                        obj |-> EraseValues(r.data.obj),
                        list |-> [i \in 1..Len(r.data.list) |->
                                    EraseValues(r.data.list[i])]],
              !.set = EraseValues(r.set),
              !.where = [given |-> r.where.given, obj |-> EraseValues(r.where.obj)]]

\* the values of the mappings of request r
ValuesIn(r) ==
    {r.data.obj[i].v : i \in 1..Len(r.data.obj)}
    \cup UNION {{r.data.list[n][i].v : i \in 1..Len(r.data.list[n])} :
                  n \in 1..Len(r.data.list)}
    \cup {r.set[i].v : i \in 1..Len(r.set)}
    \cup {r.where.obj[i].v : i \in 1..Len(r.where.obj)}

\* C2: the SQL text of an insert (single or bulk), select or update is the
\* text of the same call with every value erased: it depends on the table
\* and the keys only, so two calls that differ only in values have the same
\* text, character by character; the values are in the parameter list, which
\* holds nothing but values of the call (and, for a key a bulk row does not
\* own, undefined or the property of that name of Object.prototype).
C2_TextIndependentOfValues ==
    \A p \in Callers :
        (Handed(p) /\ req[p].op \in {"insertIntoTable", "selectFromTable",
                                     "updateTable"})
            => /\ stmt[p].text = StatementFor(Erased(req[p])).text
               /\ \A i \in 1..Len(stmt[p].params) :
                     stmt[p].params[i] \in ValuesIn(req[p]) \cup {Undefined}
                                          \cup {Inherited(key) : key \in PrototypeKeys}

\* an executed two-row bulk insert binding two different values
C2_Witness ==
    \E p \in Callers :
        /\ IsBulkInsert(req[p])
        /\ Len(req[p].data.list) = 2
        /\ executed[p] = 1
        /\ \E i, j \in 1..Len(stmt[p].params) :
              /\ stmt[p].params[i] = Num(1)
              /\ stmt[p].params[j] = Arr(<<Num(1), Num(2)>>)

\* name matches ^[A-Za-z0-9_]+$
MatchesNamePattern(name) ==
    Len(name) >= 1 /\ \A i \in 1..Len(name) : name[i] \in WordChars

\* C3: createDatabase, dropTable and dropDatabase hand query() a statement
\* containing the name when the name matches ^[A-Za-z0-9_]+$ (and the
\* statement is the one run on the connection obtained); for any other
\* name, the empty one included, the call fails with an error, takes no
\* connection and issues no statement.
C3_NameCheckedBeforeAnyStatement ==
    \A p \in Callers :
        (pc[p] # "idle" /\ req[p].op \in {"createDatabase", "dropTable",
                                          "dropDatabase"})
            => IF MatchesNamePattern(req[p].name)
               THEN /\ Handed(p)
                    /\ Contains(req[p].name, stmt[p].text)
                    /\ EndsWith(stmt[p].text, Space \o req[p].name)
                    /\ connects[p] = executed[p]
               ELSE FailsUpFront(p)

\* createDatabase with a name whose last character is a line break: refused
C3_Witness ==
    \E p \in Callers :
        /\ req[p].op = "createDatabase"
        /\ req[p].name = <<"a", "\n">>
        /\ FailedUpFront(p)

\* C4: in every statement handed to query() the placeholders read left to
\* right are exactly $1, $2, ..., $n, n the length of the parameter list.
C4_PlaceholdersSequential ==
    \A p \in Callers :
        Handed(p) => PlaceholdersOf(stmt[p].text) = Iota(Len(stmt[p].params))

\* an executed bulk insert of two rows, the second with another key set than
\* the first, with four parameters
C4_Witness ==
    \E p \in Callers :
        /\ IsBulkInsert(req[p])
        /\ Len(req[p].data.list) = 2
        /\ KeySet(req[p].data.list[2]) # KeySet(req[p].data.list[1])
        /\ Len(stmt[p].params) = 4
        /\ executed[p] = 1

\* item is "<column> = $<n>" and the value bound at n is obj's for column
BindsColumn(item, n, obj, params) ==
    LET sides == Split(item, SqlEquals)
    IN /\ Len(sides) = 2
       /\ sides[2] = Placeholder(n)
       /\ HasKey(obj, sides[1])
       /\ n \in 1..Len(params)
       /\ params[n] = Get(obj, sides[1])

\* C5: in a single-row insert, a select and an update the parameter at index
\* n is the input's value for the column placeholder $n stands for in the
\* text; in an update the i-th SET column carries $i and the j-th WHERE
\* column $(k+j), k the number of SET columns.
C5_ParamsBoundToTheirColumns ==
    \A p \in Callers :
        Handed(p) =>
            LET r == req[p]
                text == stmt[p].text
                params == stmt[p].params
            IN CASE IsSingleInsert(r) ->
                      LET cols == Items(Between(text, SpaceOpen, SqlValuesOpen), CommaSpace)
                          phs == Items(Between(text, SqlValuesOpen, <<")",
                              " ", "R", "E", "T", "U", "R", "N", "I", "N",
                              "G">>),
                                       CommaSpace)
                      IN /\ Len(cols) = Len(r.data.obj)
                         /\ Len(phs) = Len(cols)
                         /\ Len(params) = Len(cols)
                         /\ \A n \in 1..Len(cols) :
                               /\ phs[n] = Placeholder(n)
                               /\ HasKey(r.data.obj, cols[n])
                               /\ params[n] = Get(r.data.obj, cols[n])
                 [] r.op = "selectFromTable" ->
                      LET conds == IF Contains(SqlWhere, text)
                                   THEN Items(Between(text, SqlWhere, Semicolon),
                                              SqlAnd)
                                   ELSE <<>>
                      IN /\ Len(conds) = Len(r.where.obj)
                         /\ Len(params) = Len(conds)
                         /\ \A n \in 1..Len(conds) :
                               BindsColumn(conds[n], n, r.where.obj, params)
                 [] r.op = "updateTable" ->
                      LET sets == Items(Between(text, SqlSet, SqlWhere), CommaSpace)
                          conds == Items(Between(text, SqlWhere, Semicolon), SqlAnd)
                          k == Len(r.set)
                      IN /\ Len(sets) = k
                         /\ Len(conds) = Len(r.where.obj)
                         /\ Len(params) = k + Len(conds)
                         /\ \A i \in 1..k :
                               /\ BindsColumn(sets[i], i, r.set, params)
                               /\ params[i] = r.set[i].v
                         /\ \A j \in 1..Len(conds) :
                               /\ BindsColumn(conds[j], k + j, r.where.obj, params)
                               /\ params[k + j] = r.where.obj[j].v
                 [] OTHER -> TRUE

\* an executed update with two SET columns and two WHERE columns whose
\* values all differ between SET and WHERE
C5_Witness ==
    \E p \in Callers :
        /\ req[p].op = "updateTable"
        /\ Len(req[p].set) = 2
        /\ Len(req[p].where.obj) = 2
        /\ req[p].set[1].v # req[p].where.obj[1].v
        /\ req[p].set[2].v # req[p].where.obj[2].v
        /\ executed[p] = 1

\* the rows of list all have the key list of the first row
SameKeyList(list) ==
    \A r \in 1..Len(list) : ObjectKeys(list[r]) = ObjectKeys(list[1])

\* the value tuples of a multi-row VALUES list "(..), (..)", "" for "()"
TuplesOf(valuesList) ==
    Split(SubSeq(valuesList, 2, Len(valuesList) - 1), <<")", ",", " ", "(">>)

\* C6: a bulk insert of m >= 1 rows with the key list c1..ck is one INSERT
\* statement with m value tuples; the placeholder of row i, column j
\* (0-based) is $(i*k + j + 1) and is bound to rows[i][c_j]; the call returns
\* all the rows the database returned.  A non-array argument is a single-row
\* insert, one value tuple, that returns only the first returned row.
C6_BulkInsertRowMajor ==
    \A p \in Callers :
        LET r == req[p]
            text == stmt[p].text
            params == stmt[p].params
            list == r.data.list
            m == Len(list)
        IN /\ (IsBulkInsert(r) /\ m >= 1 /\ SameKeyList(list) /\ pc[p] # "idle") =>
                LET cols == ObjectKeys(list[1])
                    k == Len(cols)
                    tuples == TuplesOf(Between(text, SqlValues, SqlReturning))
                IN /\ Handed(p)
                   /\ executed[p] <= 1
                   /\ StartsWith(text, SqlInsertInto \o r.table \o SpaceOpen
                                       \o Join(cols, CommaSpace) \o SqlValuesOpen)
                   /\ Len(tuples) = m
                   /\ Len(params) = m * k
                   /\ \A i \in 0..(m - 1) :
                         /\ Items(tuples[i + 1], CommaSpace)
                               = [j \in 1..k |-> Placeholder(i * k + (j - 1) + 1)]
                         /\ \A j \in 0..(k - 1) :
                               params[i * k + j + 1] = Get(list[i + 1], cols[j + 1])
                   /\ outcome[p].status = "returned"
                         => outcome[p].value = [kind |-> "rows", rows |-> settled[p].rows]
           /\ (IsSingleInsert(r) /\ pc[p] # "idle") =>
                /\ Handed(p)
                /\ Len(TuplesOf(Between(text, SqlValues, SqlReturning))) = 1
                /\ Len(params) = Len(r.data.obj)
                /\ (outcome[p].status = "returned" /\ Len(settled[p].rows) >= 1)
                      => outcome[p].value
                            = [kind |-> "row", rows |-> <<settled[p].rows[1]>>]

\* a bulk insert of two rows with the same two keys that returned the two
\* rows the database gave
C6_Witness ==
    \E p \in Callers :
        /\ IsBulkInsert(req[p])
        /\ Len(req[p].data.list) = 2
        /\ SameKeyList(req[p].data.list)
        /\ Len(req[p].data.list[1]) = 2
        /\ req[p].data.list[1] # req[p].data.list[2]
        /\ outcome[p].status = "returned"
        /\ Len(outcome[p].value.rows) = 2

\* C7: selectFromTable with where left out or empty hands over a statement
\* with no WHERE clause and no parameters and returns all the rows the
\* database returned; with k >= 1 keys the WHERE clause is the AND of exactly
\* k conditions "key_i = $i" in key order, $i bound to the i-th value.
C7_SelectWhereClause ==
    \A p \in Callers :
        (req[p].op = "selectFromTable" /\ pc[p] # "idle") =>
            LET where == req[p].where
                text == stmt[p].text
                params == stmt[p].params
                k == Len(where.obj)
            IN /\ Handed(p)
               /\ outcome[p].status = "returned"
                     => outcome[p].value = [kind |-> "rows", rows |-> settled[p].rows]
               /\ IF ~where.given \/ k = 0
                  THEN /\ ~Contains(<<"W", "H", "E", "R", "E">>, text)
                       /\ text = SqlSelectFrom \o req[p].table \o Semicolon
                       /\ params = <<>>
                  ELSE LET conds == Split(Between(text, SqlWhere, Semicolon), SqlAnd)
                       IN /\ StartsWith(text, SqlSelectFrom \o req[p].table
                                              \o SqlWhere)
                          /\ text[Len(text)] = ";"
                          /\ Len(conds) = k
                          /\ Len(params) = k
                          /\ \A i \in 1..k :
                                /\ conds[i] = where.obj[i].k \o SqlEquals \o Placeholder(i)
                                /\ params[i] = where.obj[i].v

\* a select filtered on two keys that returned the database's two rows
C7_Witness ==
    \E p \in Callers :
        /\ req[p].op = "selectFromTable"
        /\ req[p].where.given
        /\ Len(req[p].where.obj) = 2
        /\ outcome[p].status = "returned"
        /\ Len(outcome[p].value.rows) = 2

\* request r is an alter-table call with no change or a bulk insert of no row
EmptyInput(r) ==
    \/ r.op \in {"addColumns", "modifyColumns"} /\ r.columns = <<>>
    \/ r.op = "dropColumn" /\ r.column.isArray /\ r.column.list = <<>>
    \/ IsBulkInsert(r) /\ r.data.list = <<>>

\* C8: addColumns or modifyColumns with an empty mapping, dropColumn with an
\* empty list and a bulk insert of an empty list fail with an error, and in
\* that call no connection is taken from the pool and no statement issued.
C8_EmptyInputFailsUpFront ==
    \A p \in Callers :
        (pc[p] # "idle" /\ EmptyInput(req[p])) => FailsUpFront(p)

\* dropColumn with an empty list of columns has failed
C8_Witness ==
    \E p \in Callers :
        /\ req[p].op = "dropColumn"
        /\ req[p].column = ColumnArray(<<>>)
        /\ FailedUpFront(p)

\* C9: whatever fails under one of the ten exported functions, a check of
\* the builder or the execution, the caller gets the generic error of the
\* function's catch block, never the original error.
C9_OriginalErrorNeverReachesCaller ==
    \A p \in Callers :
        outcome[p].status = "threw" => outcome[p].error.origin = "facade"

\* the later rows of list whose key set is not the first row's
DifferingRows(list) ==
    {r \in 2..Len(list) : KeySet(list[r]) # KeySet(list[1])}

\* C10 as stated: in a bulk insert with a later row whose key set differs
\* from the first row's, the call does not fail and some value of that row
\* is bound at the placeholder of a column other than the one it is keyed
\* under in the row.
C10_DifferingRowMisaligned ==
    \A p \in Callers :
        (IsBulkInsert(req[p]) /\ pc[p] # "idle") =>
            LET list == req[p].data.list
                cols == ObjectKeys(list[1])
                k == Len(cols)
            IN \A r \in DifferingRows(list) :
                  /\ Handed(p)
                  /\ \E i \in 1..Len(list[r]), j \in 1..k :
                        /\ cols[j] # list[r][i].k
                        /\ stmt[p].params[(r - 1) * k + j] = list[r][i].v

\* C10 as the code has it: the builder does not fail, and every placeholder
\* of such a row is bound to row[column], the value the row holds under that
\* column's own key; where the row does not own the key that is undefined,
\* or, for a key that names a property of Object.prototype (toString,
\* constructor, ...), that inherited property.  What the row holds under keys
\* the first row lacks is bound nowhere.  No value of the row is bound under
\* another column than its own.
C10_DifferingRowBoundByName ==
    \A p \in Callers :
        (IsBulkInsert(req[p]) /\ pc[p] # "idle") =>
            LET list == req[p].data.list
                cols == ObjectKeys(list[1])
                k == Len(cols)
            IN \A r \in DifferingRows(list) :
                  /\ Handed(p)
                  /\ Len(stmt[p].params) = Len(list) * k
                  /\ \A j \in 1..k :
                        LET bound == stmt[p].params[(r - 1) * k + j]
                        IN IF HasKey(list[r], cols[j])
                           THEN \E i \in 1..Len(list[r]) :
                                   list[r][i].k = cols[j] /\ bound = list[r][i].v
                           ELSE IF cols[j] \in PrototypeKeys
                           THEN bound = Inherited(cols[j])
                           ELSE bound = Undefined

\* an executed bulk insert whose first row is keyed toString only and whose
\* second row is keyed a only: the second row lacks the key of the first, has
\* a key the first lacks, and binds the toString it inherits
C10_Witness ==
    \E p \in Callers :
        /\ IsBulkInsert(req[p])
        /\ Len(req[p].data.list) = 2
        /\ KeySet(req[p].data.list[1]) = {KeyToString}
        /\ KeySet(req[p].data.list[2]) = {<<"a">>}
        /\ stmt[p].params[2] = Inherited(KeyToString)
        /\ executed[p] = 1

=============================================================================
